---- MODULE Spec2Model ----
(***************************************************************************)
(* Model of machivellian/traditional.py: Cohen's d / Cohen's f effect      *)
(* sizes and the power calculations built on the noncentral t and F        *)
(* distributions.                                                          *)
(*                                                                         *)
(* Numbers.  The functions work on IEEE doubles.  Here a number is a       *)
(* record [k, sg, n, d]:                                                   *)
(*    k = "q"    the rational  sg * n / d          (n, d coprime, d > 0)   *)
(*    k = "s"    the surd      sg * sqrt(n / d)    (n/d not a square)      *)
(*    k = "inf"  sg * infinity                                             *)
(*    k = "nan"  not-a-number                                              *)
(* so that means, variances, standard deviations and their quotients are   *)
(* exact, and division by zero gives nan / inf as numpy's scalars do.      *)
(* Rounding error of the doubles is not modelled.                          *)
(***************************************************************************)
EXTENDS Integers, Sequences, FiniteSets, TLC

----------------------------------------------------------------------------
(* Arithmetic *)

RECURSIVE GCD(_, _)
GCD(a, b) == IF b = 0 THEN a ELSE GCD(b, a % b)

RECURSIVE ISqrtIn(_, _, _)
\* floor(sqrt(n)) by bisection, lo*lo <= n < hi*hi
ISqrtIn(n, lo, hi) ==
    IF hi - lo <= 1 THEN lo
    ELSE LET mid == (lo + hi) \div 2
         IN  IF mid * mid <= n THEN ISqrtIn(n, mid, hi) ELSE ISqrtIn(n, lo, mid)

\* 46341^2 exceeds the 32-bit integers of the checker
ISqrt(n) == ISqrtIn(n, 0, IF n < 46340 THEN n + 1 ELSE 46341)

NaN == [k |-> "nan", sg |-> 0, n |-> 0, d |-> 1]

Inf(sg) == [k |-> "inf", sg |-> sg, n |-> 0, d |-> 1]

Zero == [k |-> "q", sg |-> 0, n |-> 0, d |-> 1]

Sign(i) == IF i > 0 THEN 1 ELSE IF i < 0 THEN -1 ELSE 0

AbsInt(i) == IF i < 0 THEN -i ELSE i

\* the rational num / den, den # 0
Rat(num, den) ==
    IF num = 0 THEN Zero
    ELSE LET g == GCD(AbsInt(num), AbsInt(den))
         IN  [k |-> "q", sg |-> Sign(num) * Sign(den),
              n |-> AbsInt(num) \div g, d |-> AbsInt(den) \div g]

Int2Num(i) == Rat(i, 1)

One == Int2Num(1)

\* sg * sqrt(num / den), num >= 0, den > 0
Root(sg, num, den) ==
    IF num = 0 \/ sg = 0 THEN Zero
    ELSE LET g == GCD(num, den)
             a == num \div g
             b == den \div g
             ra == ISqrt(a)
             rb == ISqrt(b)
         IN  IF ra * ra = a /\ rb * rb = b
             THEN [k |-> "q", sg |-> sg, n |-> ra, d |-> rb]
             ELSE [k |-> "s", sg |-> sg, n |-> a, d |-> b]

IsFinite(v) == v.k \in {"q", "s"}

IsNaN(v) == v.k = "nan"

IsZero(v) == IsFinite(v) /\ v.sg = 0

\* numerator and denominator of the square of a finite number
SqN(v) == IF v.k = "q" THEN v.n * v.n ELSE v.n

SqD(v) == IF v.k = "q" THEN v.d * v.d ELSE v.d

Neg(v) == [v EXCEPT !.sg = -v.sg]

Abs(v) == [v EXCEPT !.sg = AbsInt(v.sg)]

Mul(a, b) ==
    CASE IsNaN(a) \/ IsNaN(b) -> NaN
      [] a.k = "inf" \/ b.k = "inf" ->
            IF a.sg * b.sg = 0 THEN NaN ELSE Inf(a.sg * b.sg)
      [] a.k = "q" /\ b.k = "q" -> Rat(a.sg * b.sg * a.n * b.n, a.d * b.d)
      [] OTHER ->
            LET g1 == GCD(SqN(a), SqD(b))
                g2 == GCD(SqN(b), SqD(a))
            IN  Root(a.sg * b.sg, (SqN(a) \div g1) * (SqN(b) \div g2),
                                  (SqD(a) \div g2) * (SqD(b) \div g1))

\* IEEE division: x/0 is nan for x = 0 and a signed infinity otherwise
Div(a, b) ==
    CASE IsNaN(a) \/ IsNaN(b) -> NaN
      [] a.k = "inf" /\ b.k = "inf" -> NaN
      [] a.k = "inf" -> Inf(IF b.sg < 0 THEN -a.sg ELSE a.sg)
      [] b.k = "inf" -> Zero
      [] IsZero(b) -> IF IsZero(a) THEN NaN ELSE Inf(a.sg)
      [] a.k = "q" /\ b.k = "q" -> Rat(a.sg * b.sg * a.n * b.d, a.d * b.n)
      [] OTHER ->
            LET g1 == GCD(SqN(a), SqN(b))
                g2 == GCD(SqD(a), SqD(b))
            IN  Root(a.sg * b.sg, (SqN(a) \div g1) * (SqD(b) \div g2),
                                  (SqD(a) \div g2) * (SqN(b) \div g1))

\* sums are only ever taken of rationals (and nan / inf) by the code modelled
Add(a, b) ==
    CASE IsNaN(a) \/ IsNaN(b) -> NaN
      [] a.k = "inf" /\ b.k = "inf" -> IF a.sg = b.sg THEN a ELSE NaN
      [] a.k = "inf" -> a
      [] b.k = "inf" -> b
      [] a.k = "q" /\ b.k = "q" ->
            Rat(a.sg * a.n * b.d + b.sg * b.n * a.d, a.d * b.d)

Sub(a, b) == Add(a, Neg(b))

Square(v) == Mul(v, v)

\* np.sqrt: nan for a negative argument; only ever applied to rationals
Sqrt(v) ==
    CASE IsNaN(v) -> NaN
      [] v.k = "inf" -> IF v.sg > 0 THEN v ELSE NaN
      [] v.k = "q" -> IF v.sg < 0 THEN NaN ELSE Root(v.sg, v.n, v.d)

\* a >= b in IEEE arithmetic for b = 0: false for nan
GeqZero(v) == ~IsNaN(v) /\ v.sg >= 0

GtZero(v) == ~IsNaN(v) /\ v.sg > 0

\* a <= b for two rationals
LeqQ(a, b) == a.sg * a.n * b.d <= b.sg * b.n * a.d

RECURSIVE SumSeq(_)
SumSeq(s) == IF s = <<>> THEN Zero ELSE Add(Head(s), SumSeq(Tail(s)))

RECURSIVE SumInts(_)
SumInts(s) == IF s = <<>> THEN 0 ELSE Head(s) + SumInts(Tail(s))

RECURSIVE Flatten(_)
Flatten(ss) == IF ss = <<>> THEN <<>> ELSE Head(ss) \o Flatten(Tail(ss))

----------------------------------------------------------------------------
(* ndarray reductions: a sample is a non-empty sequence of integers *)

ArrMean(x) == Rat(SumInts(x), Len(x))

\* population variance (numpy's default ddof = 0)
ArrVar(x) ==
    Rat(Len(x) * SumInts([i \in 1..Len(x) |-> x[i] * x[i]])
          - SumInts(x) * SumInts(x),
        Len(x) * Len(x))

ArrStd(x) == Sqrt(ArrVar(x))

get_vitals(sample) == <<ArrMean(sample), ArrStd(sample)>>

----------------------------------------------------------------------------
(* Effect sizes *)

\* a sign slip in the numerator: (x + x0) / s
effect_ttest_1_plus(sample, x0) ==
    LET x == get_vitals(sample)[1]
        s == get_vitals(sample)[2]
    IN  Div(Add(x, x0), s)

effect_ttest_1(sample, x0) ==
    LET x == get_vitals(sample)[1]
        s == get_vitals(sample)[2]
    IN  Div(Sub(x, x0), s)

\* both variances weighted by n1 - 1
PooledStdSameWeight(s1, n1, s2, n2) ==
    Sqrt(Div(Add(Mul(Square(s1), Int2Num(n1 - 1)),
                 Mul(Square(s2), Int2Num(n1 - 1))),
             Int2Num(n1 + n2 - 2)))

\* np.sqrt((np.square(s1) * (n1 - 1) + np.square(s2) * (n2 - 1)) / (n1 + n2 - 2))
PooledStd(s1, n1, s2, n2) ==
    Sqrt(Div(Add(Mul(Square(s1), Int2Num(n1 - 1)),
                 Mul(Square(s2), Int2Num(n2 - 1))),
             Int2Num(n1 + n2 - 2)))

effect_ttest_ind(sample1, sample2) ==
    LET x1 == get_vitals(sample1)[1]
        s1 == get_vitals(sample1)[2]
        x2 == get_vitals(sample2)[1]
        s2 == get_vitals(sample2)[2]
        n1 == Len(sample1)
        n2 == Len(sample2)
        s_pool == PooledStd(s1, n1, s2, n2)
    IN  Div(Sub(x1, x2), s_pool)

\* np.hstack(samples).mean(); np.hstack raises ValueError on an empty list,
\* which the callers below test for before they use this
GrandMean(samples) == ArrMean(Flatten(samples))

\* sum over the groups of std(x)^2 * (len(x) - 1)
WithinSS(samples) ==
    SumSeq([g \in 1..Len(samples) |->
              Mul(Square(ArrStd(samples[g])), Int2Num(Len(samples[g]) - 1))])

TotalN(samples) == SumInts([g \in 1..Len(samples) |-> Len(samples[g])])

\* sum over the groups of ((mean - grand_mean) / pooled)^2
SumSqDev(samples, pooled) ==
    LET grand_mean == GrandMean(samples)
        sd == pooled
    IN  SumSeq([g \in 1..Len(samples) |->
                  Square(Div(Sub(ArrMean(samples[g]), grand_mean), sd))])

\* the denominator taken as num_groups - total_N
EffectPooledSignSlip(samples) ==
    Sqrt(Div(WithinSS(samples), Int2Num(Len(samples) - TotalN(samples))))

EffectPooled(samples) ==
    Sqrt(Div(WithinSS(samples), Int2Num(TotalN(samples) - Len(samples))))

effect_anova(samples) ==
    LET num_groups == Len(samples)
    IN  Sqrt(Div(SumSqDev(samples, EffectPooled(samples)), Int2Num(num_groups)))

----------------------------------------------------------------------------
(* The statistics library (scipy.stats / scipy.special), as far as the     *)
(* module relies on it.  A quantile of a central distribution is kept      *)
(* symbolically as the probability it belongs to; a noncentral CDF at      *)
(* such a quantile is that probability when the noncentrality is 0, and    *)
(* otherwise any value the stochastic ordering of the noncentral family    *)
(* allows (the two ends of the range stand for the range).  Degrees of     *)
(* freedom are a pair <<a, b>> standing for a + b with a, b >= 0.          *)

DfPair(i) == <<Int2Num(i), Zero>>

DfOK(df) ==
    /\ IsFinite(df[1]) /\ IsFinite(df[2])
    /\ df[1].sg >= 0 /\ df[2].sg >= 0
    /\ (df[1].sg > 0 \/ df[2].sg > 0)

\* stats.t.ppf(p, df): nan unless df > 0
t_ppf(p, df) == [ok |-> DfOK(df), p |-> p]

\* -ts for a quantile of the (symmetric) central t distribution
NegQuantile(x) == [x EXCEPT !.p = Sub(One, x.p)]

\* sp.nctdtr(df, nc, x) at a central quantile x
nctdtr(df, nc, x) ==
    IF ~x.ok \/ ~DfOK(df) \/ IsNaN(nc) THEN {NaN}
    ELSE IF nc.k = "inf" THEN {NaN, IF nc.sg > 0 THEN Zero ELSE One}
    ELSE IF nc.sg = 0 THEN {x.p}
    ELSE IF nc.sg > 0 THEN {Zero, x.p}
    ELSE {x.p, One}

\* the two CDF values taken at quantiles xhi >= xlo of one distribution
TwoCdf(df, nc, xhi, xlo) ==
    {ab \in nctdtr(df, nc, xhi) \X nctdtr(df, nc, xlo) :
        /\ IsNaN(ab[1]) <=> IsNaN(ab[2])
        /\ ~IsNaN(ab[1]) => LeqQ(ab[2], ab[1])}

\* stats.f.ppf(p, df1, df2): nan unless df1 > 0 and df2 > 0
f_ppf(p, df1, df2) == [ok |-> DfOK(df1) /\ DfOK(df2), p |-> p]

\* sp.ncfdtr(df1, df2, nc, x) at a central quantile x; the routine may fail
\* to converge and return nan (traditional.py, lines 279-280)
ncfdtr(df1, df2, nc, x) ==
    IF ~x.ok \/ ~DfOK(df1) \/ ~DfOK(df2) \/ ~GeqZero(nc) THEN {NaN}
    ELSE IF nc.k = "inf" THEN {NaN, Zero}
    ELSE IF nc.sg = 0 THEN {x.p}
    ELSE {Zero, x.p, NaN}

\* stats.pearsonr(sample1, sample2)[0] for two samples of one length
pearsonr(sample1, sample2) ==
    LET n == Len(sample1)
        cov == Rat(n * SumInts([i \in 1..n |-> sample1[i] * sample2[i]])
                     - SumInts(sample1) * SumInts(sample2),
                   n * n)
    IN  Div(cov, Mul(ArrStd(sample1), ArrStd(sample2)))

----------------------------------------------------------------------------
(* Results.  counts is [shape, v]: a scalar (one element), an array, or    *)
(* None (shape "none").                                                    *)

NoneCounts == [shape |-> "none", v |-> <<>>]

NoResult == [tag |-> "none", v |-> <<>>, err |-> ""]

Value(shape, v) == [tag |-> shape, v |-> v, err |-> ""]

Raise(msg) == [tag |-> "error", v |-> <<>>, err |-> msg]

\* what a call leaves behind: its result, whether it read its samples, the
\* content of the power array it allocated (<<>> if it allocated none) and the
\* noncentrality it computed at each element of counts (<<>> if it computed none)
Outcome(res, read, power, nc) ==
    [res |-> res, read |-> read, power |-> power, nc |-> nc]

\* all sequences s of length n with s[i] \in P[i]
SeqsOf(P) == {s \in [DOMAIN P -> UNION {P[i] : i \in DOMAIN P}] :
                \A i \in DOMAIN P : s[i] \in P[i]}

----------------------------------------------------------------------------
(* Power *)

DefaultAlpha == Rat(1, 20)

Two == Int2Num(2)

\* the effect size used with its sign
NoncentralityTtestSigned(d, n) == Mul(d, Sqrt(n))

NoncentralityTtest(d, n) == Mul(Abs(d), Sqrt(n))

\* 1 - (nctdtr(df, nc, tsu) + nctdtr(df, nc, tsl))
PowerTwoTail(upper, lower) == Sub(One, Add(upper, lower))

\* the power at each element of counts, given df and nc at that element
TtestPower(df, nc, alpha) ==
    LET tsu == t_ppf(Sub(One, Div(alpha, Two)), df)
        tsl == t_ppf(Div(alpha, Two), df)
    IN  {PowerTwoTail(ab[1], ab[2]) : ab \in TwoCdf(df, nc, tsu, tsl)}

calc_ttest_1(sample, x0, counts, alpha) ==
    LET d == effect_ttest_1(sample, x0)
        noncentrality == [i \in DOMAIN counts.v |->
                            NoncentralityTtest(d, Int2Num(counts.v[i]))]
        P == [i \in DOMAIN counts.v |->
                TtestPower(DfPair(counts.v[i] - 1), noncentrality[i], alpha)]
    IN  {Outcome(Value(counts.shape, power), TRUE, power, noncentrality) :
           power \in SeqsOf(P)}

\* (counts - 1) * np.square(s1 + s2) / (np.square(s1) + np.square(s2)), with
\* (s1 + s2)^2 kept as its rational part s1^2 + s2^2 and its cross part 2 s1 s2
WelchDf(s1, s2, count) ==
    LET den == Add(Square(s1), Square(s2))
        cm1 == Int2Num(count - 1)
    IN  <<Div(Mul(cm1, Add(Square(s1), Square(s2))), den),
          Div(Mul(cm1, Mul(Two, Mul(s1, s2))), den)>>

calc_ttest_ind(sample1, sample2, counts, alpha) ==
    LET s1 == get_vitals(sample1)[2]
        s2 == get_vitals(sample2)[2]
        d == effect_ttest_ind(sample1, sample2)
        noncentrality == [i \in DOMAIN counts.v |->
                            NoncentralityTtest(d, Div(Int2Num(counts.v[i]), Two))]
        P == [i \in DOMAIN counts.v |->
                TtestPower(WelchDf(s1, s2, counts.v[i]), noncentrality[i], alpha)]
    IN  {Outcome(Value(counts.shape, power), TRUE, power, noncentrality) :
           power \in SeqsOf(P)}

\* counts defaulted to 1 instead of None
KwdsCountsDefaultOne(kwargs) ==
    [counts |-> IF kwargs.hasCounts THEN kwargs.counts
                ELSE [shape |-> "scalar", v |-> <<1>>],
     alpha |-> IF kwargs.hasAlpha THEN kwargs.alpha ELSE DefaultAlpha]

\* kwds = {'counts': None, 'alpha': 0.05} updated with the keyword arguments
Kwds(kwargs) ==
    [counts |-> IF kwargs.hasCounts THEN kwargs.counts ELSE NoneCounts,
     alpha |-> IF kwargs.hasAlpha THEN kwargs.alpha ELSE DefaultAlpha]

\* the pooled deviation of effect_anova, denominator total_N - num_groups
CalcPooledByGroups(samples) ==
    Sqrt(Div(WithinSS(samples), Int2Num(TotalN(samples) - Len(samples))))

CalcPooled(samples) ==
    Sqrt(Div(WithinSS(samples), Int2Num(TotalN(samples) - 2)))

\* np.array([...]).sum() * counts
NoncentralityAnova(samples, counts) ==
    LET total == SumSqDev(samples, CalcPooled(samples))
    IN  [i \in DOMAIN counts.v |-> Mul(total, Int2Num(counts.v[i]))]

PowerAnova(cdf) == Sub(One, cdf)

\* power[np.isnan(power)] = 1
NanToOne(power) == [i \in DOMAIN power |-> IF IsNaN(power[i]) THEN One ELSE power[i]]

ItemAssignmentError == "TypeError: 'numpy.float64' object does not support item assignment"

calc_anova(samples, kwargs) ==
    LET kwds == Kwds(kwargs)
        counts == kwds.counts
        alpha == kwds.alpha
        k == Len(samples)
        df1 == DfPair(k - 1)
        noncentrality == NoncentralityAnova(samples, counts)
        P == [i \in DOMAIN counts.v |->
                LET df2 == DfPair(k * (counts.v[i] - 1))
                    fu == f_ppf(Sub(One, alpha), df1, df2)
                IN  {PowerAnova(c) : c \in ncfdtr(df1, df2, noncentrality[i], fu)}]
    IN  IF counts.shape = "none"
        THEN {Outcome(Raise("ValueError: counts is undefined!"), FALSE, <<>>, <<>>)}
        ELSE IF k = 0
        THEN {Outcome(Raise("ValueError: need at least one array to concatenate"),
                      TRUE, <<>>, <<>>)}
        ELSE IF counts.shape = "scalar"
        THEN {Outcome(Raise(ItemAssignmentError), TRUE, power, noncentrality) :
                power \in SeqsOf(P)}
        ELSE {Outcome(Value(counts.shape, NanToOne(power)), TRUE, NanToOne(power),
                      noncentrality) :
                power \in SeqsOf(P)}

NoncentralityPearson(r, count) ==
    Mul(Div(r, Sqrt(Sub(One, Square(r)))), Sqrt(Int2Num(count)))

\* 1 - nctdtr(df, nc, ts) + nctdtr(df, nc, -ts)
PowerPearson(upper, lower) == Add(Sub(One, upper), lower)

calc_pearson(sample1, sample2, counts, alpha) ==
    LET r == pearsonr(sample1, sample2)
        noncentrality == [i \in DOMAIN counts.v |->
                            NoncentralityPearson(r, counts.v[i])]
        P == [i \in DOMAIN counts.v |->
                LET df == DfPair(counts.v[i] - 2)
                    ts == t_ppf(Sub(One, Div(alpha, Two)), df)
                IN  {PowerPearson(ab[1], ab[2]) :
                       ab \in TwoCdf(df, noncentrality[i], ts, NegQuantile(ts))}]
    IN  {Outcome(Value(counts.shape, power), TRUE, power, noncentrality) :
           power \in SeqsOf(P)}

----------------------------------------------------------------------------
(* Calls.  A call is [op, samples, x0, counts, hasAlpha, alpha]; counts    *)
(* has shape "none" when the caller passes none.                           *)

EffAlpha(in) == IF in.hasAlpha THEN in.alpha ELSE DefaultAlpha

Returned(v) == {Outcome(Value("scalar", <<v>>), TRUE, <<>>, <<>>)}

\* everything a call may leave behind
Outcomes(in) ==
    CASE in.op = "effect_ttest_1" ->
            Returned(effect_ttest_1(in.samples[1], in.x0))
      [] in.op = "effect_ttest_ind" ->
            Returned(effect_ttest_ind(in.samples[1], in.samples[2]))
      [] in.op = "effect_anova" ->
            IF Len(in.samples) = 0
            THEN {Outcome(Raise("ValueError: need at least one array to concatenate"),
                          TRUE, <<>>, <<>>)}
            ELSE Returned(effect_anova(in.samples))
      [] in.op = "calc_ttest_1" ->
            calc_ttest_1(in.samples[1], in.x0, in.counts, EffAlpha(in))
      [] in.op = "calc_ttest_ind" ->
            calc_ttest_ind(in.samples[1], in.samples[2], in.counts, EffAlpha(in))
      [] in.op = "calc_anova" ->
            calc_anova(in.samples,
                       [hasCounts |-> in.counts.shape # "none", counts |-> in.counts,
                        hasAlpha |-> in.hasAlpha, alpha |-> in.alpha])
      [] in.op = "calc_pearson" ->
            calc_pearson(in.samples[1], in.samples[2], in.counts, EffAlpha(in))

----------------------------------------------------------------------------
(* Inputs *)

\* observations
Obs == {0, 1, 2}

MaxLen == 2
MaxGroups == 3
MaxTotal == 4
\* sample sizes asked for
CountValues == {1, 3}

MaxCountsLen == 2

\* samples of at most n observations, listed in nondecreasing order (mean()
\* and std() do not depend on the order)
SamplesUpTo(n) ==
    UNION {{x \in [1..m -> Obs] : \A i \in 1..(m - 1) : x[i] <= x[i + 1]} : m \in 1..n}

Samples == SamplesUpTo(MaxLen)

\* pairs of samples of one length >= 2, the second in any order
PairedSamples ==
    UNION {{<<x, y>> : x \in {z \in Samples : Len(z) = m}, y \in [1..m -> Obs]} :
             m \in 2..MaxLen}

RECURSIVE TuplesOf(_, _)
\* k samples of at most total observations together
TuplesOf(k, total) ==
    IF k = 0 THEN {<<>>}
    ELSE UNION {{<<x>> \o t : t \in TuplesOf(k - 1, total - Len(x))} :
                  x \in SamplesUpTo(total - (k - 1))}

GroupTuples == UNION {TuplesOf(k, MaxTotal) : k \in 0..MaxGroups}

CountsSet ==
    {[shape |-> "scalar", v |-> <<c>>] : c \in CountValues}
    \cup {[shape |-> "array", v |-> a] :
            a \in UNION {[1..m -> CountValues] : m \in 1..MaxCountsLen}}

X0Set(sample) == {ArrMean(sample)} \cup {Int2Num(v) : v \in Obs}

AlphaArgs == {<<FALSE, DefaultAlpha>>, <<TRUE, Rat(1, 10)>>}

MkCall(op, samples, x0, counts, a) ==
    [op |-> op, samples |-> samples, x0 |-> x0, counts |-> counts,
     hasAlpha |-> a[1], alpha |-> a[2]]

NoAlpha == <<FALSE, DefaultAlpha>>

CallsEffectTtest1 ==
    {MkCall("effect_ttest_1", <<x>>, x0, NoneCounts, NoAlpha) :
       x \in Samples, x0 \in UNION {X0Set(y) : y \in Samples}}

CallsEffectTtestInd ==
    {MkCall("effect_ttest_ind", <<x, y>>, Zero, NoneCounts, NoAlpha) :
       x \in Samples, y \in Samples}

CallsEffectAnova ==
    {MkCall("effect_anova", g, Zero, NoneCounts, NoAlpha) : g \in GroupTuples}

CallsCalcTtest1 ==
    {MkCall("calc_ttest_1", <<x>>, x0, c, a) :
       x \in Samples, x0 \in UNION {X0Set(y) : y \in Samples},
       c \in CountsSet, a \in AlphaArgs}

CallsCalcTtestInd ==
    {MkCall("calc_ttest_ind", <<x, y>>, Zero, c, a) :
       x \in Samples, y \in Samples, c \in CountsSet, a \in AlphaArgs}

CallsCalcAnova ==
    {MkCall("calc_anova", g, Zero, c, a) :
       g \in GroupTuples, c \in CountsSet \cup {NoneCounts}, a \in AlphaArgs}

CallsCalcPearson ==
    {MkCall("calc_pearson", xy, Zero, c, a) :
       xy \in PairedSamples, c \in CountsSet, a \in AlphaArgs}

----------------------------------------------------------------------------
(* State *)

Callers == {"a", "b"}

VARIABLES
    pc,     \* pc[c]: "idle", "running" (inside the function) or "done"
    call,   \* call[c]: the call as the caller made it
    heap,   \* heap[c]: the arrays of caller c: its samples, its counts, and
            \*          the power array the running call has allocated
    ret     \* ret[c]: the result of the call, whether it read the samples, and
            \*         the noncentrality it computed

vars == <<pc, call, heap, ret>>

NoCall == MkCall("none", <<>>, Zero, NoneCounts, NoAlpha)

NoHeap == [samples |-> <<>>, counts |-> NoneCounts, power |-> <<>>]

NoRet == [res |-> NoResult, read |-> FALSE, nc |-> <<>>]

Init ==
    /\ pc = [c \in Callers |-> "idle"]
    /\ call = [c \in Callers |-> NoCall]
    /\ heap = [c \in Callers |-> NoHeap]
    /\ ret = [c \in Callers |-> NoRet]

\* the caller puts its arguments in place and enters the function
Enter(c, in) ==
    /\ pc' = [pc EXCEPT ![c] = "running"]
    /\ call' = [call EXCEPT ![c] = in]
    /\ heap' = [heap EXCEPT ![c] = [samples |-> in.samples, counts |-> in.counts,
                                    power |-> <<>>]]
    /\ UNCHANGED ret

Call(c, calls) == pc[c] = "idle" /\ \E in \in calls : Enter(c, in)

\* the arguments as the function body finds them in memory
Args(c) == [call[c] EXCEPT !.samples = heap[c].samples, !.counts = heap[c].counts]

\* the item assignment "... = 1" landing in the counts array as well
HeapAfterCountsStore(h, o) ==
    [h EXCEPT !.power = o.power, !.counts.v = [i \in DOMAIN @ |-> 1]]

\* the only store a function makes goes to the power array it allocated
HeapAfter(h, o) == [h EXCEPT !.power = o.power]

\* the function runs to its end: it returns or raises
Return(c) ==
    /\ pc[c] = "running"
    /\ \E o \in Outcomes(Args(c)) :
          /\ heap' = [heap EXCEPT ![c] = HeapAfter(heap[c], o)]
          /\ ret' = [ret EXCEPT ![c] = [res |-> o.res, read |-> o.read, nc |-> o.nc]]
    /\ pc' = [pc EXCEPT ![c] = "done"]
    /\ UNCHANGED call

\* the caller drops the call's arguments and result
Reset(c) ==
    /\ pc[c] = "done"
    /\ pc' = [pc EXCEPT ![c] = "idle"]
    /\ call' = [call EXCEPT ![c] = NoCall]
    /\ heap' = [heap EXCEPT ![c] = NoHeap]
    /\ ret' = [ret EXCEPT ![c] = NoRet]

Next ==
    \/ Call("a", CallsEffectTtest1)
    \/ Call("a", CallsEffectTtestInd)
    \/ Call("a", CallsEffectAnova)
    \/ Call("a", CallsCalcTtest1)
    \/ Call("a", CallsCalcTtestInd)
    \/ Call("a", CallsCalcAnova)
    \/ Call("a", CallsCalcPearson)
    \/ Return("a")
    \/ Reset("a")

Spec == Init /\ [][Next]_vars

----------------------------------------------------------------------------
(* Two callers, each making calls of its own, in any interleaving *)

ConcSamples == {<<0, 1>>, <<1, 1>>}

ConcCounts == {[shape |-> "scalar", v |-> <<3>>], [shape |-> "array", v |-> <<3>>]}

ConcCalls ==
    {MkCall("effect_ttest_1", <<x>>, Zero, NoneCounts, NoAlpha) : x \in ConcSamples}
    \cup {MkCall("effect_ttest_ind", <<x, y>>, Zero, NoneCounts, NoAlpha) :
            x \in ConcSamples, y \in ConcSamples}
    \cup {MkCall("effect_anova", <<x, y>>, Zero, NoneCounts, NoAlpha) :
            x \in ConcSamples, y \in ConcSamples}
    \cup {MkCall("calc_ttest_1", <<x>>, Zero, c, NoAlpha) :
            x \in ConcSamples, c \in ConcCounts}
    \cup {MkCall("calc_ttest_ind", <<x, y>>, Zero, c, NoAlpha) :
            x \in ConcSamples, y \in ConcSamples, c \in ConcCounts}
    \cup {MkCall("calc_anova", <<x, y>>, Zero, c, NoAlpha) :
            x \in ConcSamples, y \in ConcSamples, c \in ConcCounts \cup {NoneCounts}}
    \cup {MkCall("calc_pearson", <<x, y>>, Zero, c, NoAlpha) :
            x \in ConcSamples, y \in ConcSamples, c \in ConcCounts}

NextConc == \E c \in Callers : Call(c, ConcCalls) \/ Return(c) \/ Reset(c)

SpecConc == Init /\ [][NextConc]_vars

----------------------------------------------------------------------------
(* Properties *)

Done(c, op) == pc[c] = "done" /\ call[c].op = op

Returns(c) == ret[c].res.tag \in {"scalar", "array"}

CountsAtLeast(c, m) == \A i \in DOMAIN call[c].counts.v : call[c].counts.v[i] >= m

\* C1: calc_anova called without counts raises ValueError('counts is
\* undefined!') whatever the samples are, before it reads a sample or
\* allocates a power array, and returns no power value.
C1_MissingCountsRaises ==
    \A c \in Callers :
        Done(c, "calc_anova") /\ call[c].counts.shape = "none" =>
            /\ ret[c].res = Raise("ValueError: counts is undefined!")
            /\ ~ret[c].read
            /\ heap[c].power = <<>>

\* the case of no sample at all, where reading the samples would have raised
C1_Witness ==
    /\ Done("a", "calc_anova") /\ call["a"].counts.shape = "none"
    /\ call["a"].samples = <<>>
    /\ ret["a"].res.tag = "error"

SameSamplesZeroEffect(c) ==
    /\ call[c].samples[1] = call[c].samples[2]
    /\ effect_ttest_ind(call[c].samples[1], call[c].samples[2]) = Zero

\* C2: for identical samples (d = 0) calc_ttest_ind returns alpha at every
\* element of counts (counts >= 2, so that the degrees of freedom are positive).
C2_PowerIsAlphaAtZeroEffect ==
    \A c \in Callers :
        Done(c, "calc_ttest_ind") /\ SameSamplesZeroEffect(c) /\ CountsAtLeast(c, 2) =>
            /\ Returns(c)
            /\ \A i \in DOMAIN ret[c].res.v : ret[c].res.v[i] = EffAlpha(call[c])

\* the observations of the sample are not all equal (its std is not 0)
Varies(x) == \E i \in DOMAIN x : x[i] # x[1]

SomeGroupVaries(samples) == \E g \in DOMAIN samples : Varies(samples[g])

\* valid finite inputs: non-degenerate samples (a finite effect size) and
\* positive degrees of freedom
ValidPowerCall(in) ==
    CASE in.op = "calc_ttest_1" ->
            /\ Varies(in.samples[1])
            /\ \A i \in DOMAIN in.counts.v : in.counts.v[i] >= 2
      [] in.op = "calc_ttest_ind" ->
            /\ Varies(in.samples[1]) \/ Varies(in.samples[2])
            /\ \A i \in DOMAIN in.counts.v : in.counts.v[i] >= 2
      [] in.op = "calc_anova" ->
            /\ Len(in.samples) >= 2
            /\ SomeGroupVaries(in.samples)
            /\ \A i \in DOMAIN in.counts.v : in.counts.v[i] >= 2
      [] in.op = "calc_pearson" ->
            /\ Varies(in.samples[1]) /\ Varies(in.samples[2])
            /\ Abs(pearsonr(in.samples[1], in.samples[2])) # One
            /\ \A i \in DOMAIN in.counts.v : in.counts.v[i] >= 3
      [] OTHER -> FALSE

InUnitInterval(v) == v.k = "q" /\ v.sg >= 0 /\ LeqQ(v, One)

C4_ScalarCountsReturnsScalar ==
    \A c \in Callers :
        /\ pc[c] = "done"
        /\ call[c].op \in {"calc_ttest_1", "calc_ttest_ind", "calc_anova", "calc_pearson"}
        /\ call[c].counts.shape = "scalar"
        => (ret[c].res.tag = "scalar" /\ Len(ret[c].res.v) = 1)

PooledOf(c) ==
    PooledStd(ArrStd(call[c].samples[1]), Len(call[c].samples[1]),
              ArrStd(call[c].samples[2]), Len(call[c].samples[2]))

\* C5: effect_ttest_ind(A, B) = -effect_ttest_ind(B, A) whenever
\* len(A) + len(B) > 2 and the pooled standard deviation is not 0.
C5_Antisymmetric ==
    \A c \in Callers :
        /\ Done(c, "effect_ttest_ind")
        /\ Len(call[c].samples[1]) + Len(call[c].samples[2]) > 2
        /\ GtZero(PooledOf(c))
        => ret[c].res.v[1] = Neg(effect_ttest_ind(call[c].samples[2], call[c].samples[1]))

\* two samples of different sizes and variances with a non-zero effect size
C5_Witness ==
    /\ Done("a", "effect_ttest_ind")
    /\ Len(call["a"].samples[1]) # Len(call["a"].samples[2])
    /\ ArrStd(call["a"].samples[1]) # ArrStd(call["a"].samples[2])
    /\ GtZero(PooledOf("a"))
    /\ ret["a"].res.v[1].sg = 1

\* C6 as claimed: effect_ttest_1(sample, mean(sample)) = 0 for every sample,
\* a sample of equal observations included.
C6_ZeroAtMean ==
    \A c \in Callers :
        Done(c, "effect_ttest_1") /\ call[c].x0 = ArrMean(call[c].samples[1]) =>
            ret[c].res.v[1] = Zero

\* C6 amended: effect_ttest_1(sample, mean(sample)) is 0 for every sample of
\* non-zero standard deviation, and nan (0/0) for a sample of equal observations.
C6_ZeroAtMeanUnlessConstant ==
    \A c \in Callers :
        Done(c, "effect_ttest_1") /\ call[c].x0 = ArrMean(call[c].samples[1]) =>
            ret[c].res.v[1] = IF IsZero(ArrStd(call[c].samples[1])) THEN NaN ELSE Zero

C6_Witness ==
    /\ Done("a", "effect_ttest_1") /\ call["a"].x0 = ArrMean(call["a"].samples[1])
    /\ ~IsZero(ArrStd(call["a"].samples[1]))
    /\ ret["a"].res.v[1] = Zero

Nonconstant(samples) == Varies(Flatten(samples))

\* C7 as claimed: effect_anova is >= 0 for any nonconstant set of two or more
\* groups, whatever the group sizes.
C7_NonNegative ==
    \A c \in Callers :
        /\ Done(c, "effect_anova") /\ Len(call[c].samples) >= 2
        /\ Nonconstant(call[c].samples)
        => GeqZero(ret[c].res.v[1])

\* C7 amended: effect_anova is finite and >= 0 for any set of two or more
\* groups in which some group has a non-zero variance.
C7_NonNegativeWithinVariance ==
    \A c \in Callers :
        /\ Done(c, "effect_anova") /\ Len(call[c].samples) >= 2
        /\ SomeGroupVaries(call[c].samples)
        => IsFinite(ret[c].res.v[1]) /\ GeqZero(ret[c].res.v[1])

C7_Witness ==
    /\ Done("a", "effect_anova") /\ Len(call["a"].samples) = 3
    /\ SomeGroupVaries(call["a"].samples)
    /\ GtZero(ret["a"].res.v[1])

ConstantAndEqual(samples) == Len(samples) >= 2 /\ ~Nonconstant(samples)

\* C8: calc_anova on groups that are all constant and equal does not return
\* power 1.0: the degeneracy reaches the caller as a non-finite value or an error.
C8_DegeneracyNotDefaulted ==
    \A c \in Callers :
        Done(c, "calc_anova") /\ ConstantAndEqual(call[c].samples) =>
            \/ ret[c].res.tag = "error"
            \/ \A i \in DOMAIN ret[c].res.v : ~IsFinite(ret[c].res.v[i])

\* the noncentrality calc_anova computed is counts * k * effect_anova(samples)^2
LambdaMatchesEffect(c) ==
    LET kf2 == Mul(Int2Num(Len(call[c].samples)), Square(effect_anova(call[c].samples)))
    IN  \A i \in DOMAIN call[c].counts.v :
            ret[c].nc[i] = Mul(Int2Num(call[c].counts.v[i]), kf2)

MeansAllEqual(samples) ==
    LET grand_mean == GrandMean(samples)
    IN  \A g \in DOMAIN samples : ArrMean(samples[g]) = grand_mean

AnovaWithCounts(c) ==
    Done(c, "calc_anova") /\ call[c].counts.shape # "none" /\ Len(call[c].samples) > 0

\* C9 as claimed: for k = 2 the noncentrality of calc_anova is
\* counts * k * effect_anova^2; for k >= 3 and non-zero within-group variance
\* the two pooled values differ and the equality does not hold.
C9_LambdaVsEffect ==
    \A c \in Callers :
        AnovaWithCounts(c) =>
            /\ Len(call[c].samples) = 2 => LambdaMatchesEffect(c)
            /\ Len(call[c].samples) >= 3 /\ SomeGroupVaries(call[c].samples) =>
                 /\ CalcPooled(call[c].samples) # EffectPooled(call[c].samples)
                 /\ ~LambdaMatchesEffect(c)

\* C9 amended: for k = 2 the noncentrality of calc_anova is
\* counts * k * effect_anova^2; for k >= 3 and non-zero within-group variance
\* the two pooled values differ, and the equality fails unless every group
\* mean equals the grand mean (then both sides are 0).
C9_LambdaVsEffectUnlessEqualMeans ==
    \A c \in Callers :
        AnovaWithCounts(c) =>
            /\ Len(call[c].samples) = 2 => LambdaMatchesEffect(c)
            /\ Len(call[c].samples) >= 3 /\ SomeGroupVaries(call[c].samples) =>
                 /\ CalcPooled(call[c].samples) # EffectPooled(call[c].samples)
                 /\ LambdaMatchesEffect(c) <=> MeansAllEqual(call[c].samples)

C9_Witness ==
    /\ AnovaWithCounts("a") /\ Len(call["a"].samples) = 3
    /\ SomeGroupVaries(call["a"].samples)
    /\ ~MeansAllEqual(call["a"].samples)
    /\ ~LambdaMatchesEffect("a")

\* C10: in any interleaving of calls, the samples and counts of every caller
\* stay as the caller passed them, and each call's result is one the call
\* has when it runs alone.
C10_InputsUntouched ==
    \A c \in Callers :
        /\ pc[c] # "idle" =>
             /\ heap[c].samples = call[c].samples
             /\ heap[c].counts = call[c].counts
        /\ pc[c] = "done" =>
             ret[c] \in {[res |-> o.res, read |-> o.read, nc |-> o.nc] :
                          o \in Outcomes(call[c])}

\* one caller is inside calc_anova while the other has had its NaN replaced
C10_Witness ==
    /\ pc["a"] = "running" /\ call["a"].op = "calc_anova"
    /\ Done("b", "calc_anova") /\ Returns("b")
    /\ call["b"].samples = << <<1, 1>>, <<1, 1>> >>
    /\ heap["b"].power = <<One>>

====
